---------------------------- MODULE Spec2Model ----------------------------
(***************************************************************************)
(* A model of the PDF bookmark editor of src/main.py: the outline parser   *)
(* (MainWindow.parse_bookmarks), the outline formatter                     *)
(* (BookmarkEditor.load_existing_bookmarks), the indent / unindent editing *)
(* operations, and the preview / save operations with their temporary      *)
(* files and their calls of the external tool cpdf.                        *)
(*                                                                         *)
(* A Python str is a sequence of characters; a character is a one-element  *)
(* string, except the two non-ASCII characters of the model, which are     *)
(* named by their code points.  The editor's document is the sequence of   *)
(* its blocks (lines).                                                     *)
(***************************************************************************)
EXTENDS Integers, Sequences, FiniteSets, TLC

VARIABLES
    text,               \* editor.text_edit: the blocks of the document
    offset,             \* editor.spin_offset.value()
    current_file_path,  \* editor.current_file_path ("None" or a file)
    tabIndex,           \* tabs.currentIndex(): 0 editor, 1 preview
    cpdf,               \* the external tool: "missing" or "installed"
    pdfs,               \* the PDF files on disk and what cpdf lists for each
    tempFiles,          \* temporary files on disk, by kind
    crashed,            \* an exception has left a slot unhandled
    last                \* the outcome of the last operation

vars == <<text, offset, current_file_path, tabIndex, cpdf, pdfs, tempFiles, crashed, last>>

---------------------------------------------------------------------------
(* Characters *)

TAB == "\t"
SP == " "
QUOTE == "\""
BSL == "\\"
FW3 == "U+FF13"    \* FULLWIDTH DIGIT THREE
IDSP == "U+3000"   \* IDEOGRAPHIC SPACE

AsciiDigits == {"0", "1", "2", "3", "4", "5", "6", "7", "8", "9"}

\* unicodedata.normalize('NFKC', c) on the characters of the model
NFKCChar(c) == IF c = FW3 THEN "3" ELSE IF c = IDSP THEN SP ELSE c

NFKC(s) == [i \in 1..Len(s) |-> NFKCChar(s[i])]

\* str.isspace / the regex class \s (before and after normalisation)
IsSpace(c) == c \in {TAB, SP, IDSP}

\* the regex class \d (Unicode decimal digits)
IsDigit(c) == c \in AsciiDigits \cup {FW3}

DigitValue(c) ==
    CASE c = "0" -> 0 [] c = "1" -> 1 [] c = "2" -> 2 [] c = "3" -> 3
      [] c = "4" -> 4 [] c = "5" -> 5 [] c = "6" -> 6 [] c = "7" -> 7
      [] c = "8" -> 8 [] c = "9" -> 9 [] c = FW3 -> 3

DigitChar(d) ==
    CASE d = 0 -> "0" [] d = 1 -> "1" [] d = 2 -> "2" [] d = 3 -> "3"
      [] d = 4 -> "4" [] d = 5 -> "5" [] d = 6 -> "6" [] d = 7 -> "7"
      [] d = 8 -> "8" [] d = 9 -> "9"

AllSpace(s) == \A i \in 1..Len(s) : IsSpace(s[i])

AllDigits(s) == \A i \in 1..Len(s) : IsDigit(s[i])

\* int(s) of a non-empty digit string
RECURSIVE ToInt(_)
ToInt(s) ==
    IF Len(s) = 0 THEN 0
    ELSE 10 * ToInt(SubSeq(s, 1, Len(s) - 1)) + DigitValue(s[Len(s)])

\* str(n) of an integer n >= 0
RECURSIVE ToStr(_)
ToStr(n) ==
    IF n < 10 THEN <<DigitChar(n)>>
    ELSE Append(ToStr(n \div 10), DigitChar(n % 10))

\* s.count(c)
Count(s, c) == Cardinality({i \in 1..Len(s) : s[i] = c})

\* s.replace(old, new) for a one-character old and a string new
RECURSIVE Replace(_, _, _)
Replace(s, old, new) ==
    IF Len(s) = 0 THEN <<>>
    ELSE (IF s[1] = old THEN new ELSE <<s[1]>>) \o Replace(Tail(s), old, new)

\* a variant that leaves the escapes in place
Unescape_None(s) == s

\* s.replace('\\"', '"'): every backslash-quote pair, left to right
RECURSIVE Unescape(_)
Unescape(s) ==
    IF Len(s) = 0 THEN <<>>
    ELSE IF Len(s) >= 2 /\ s[1] = BSL /\ s[2] = QUOTE
         THEN <<QUOTE>> \o Unescape(SubSeq(s, 3, Len(s)))
         ELSE <<s[1]>> \o Unescape(Tail(s))

\* "sep".join(lines) is not needed: the document keeps its blocks apart.

---------------------------------------------------------------------------
(* The outline parser: MainWindow.parse_bookmarks *)

\* the tail of the pattern, (\s+)(\d+)\s*$, matched against a whole suffix
MatchesTail(s) ==
    \E a \in 1..Len(s) : \E b \in (a + 1)..Len(s) :
        /\ AllSpace(SubSeq(s, 1, a))
        /\ AllDigits(SubSeq(s, a + 1, b))
        /\ AllSpace(SubSeq(s, b + 1, Len(s)))

\* the splits <<i, j>> of a line that ^(\s*)(.*?)(\s+)(\d+)\s*$ admits:
\* group 1 is line[1..i], group 2 is line[i+1..j]
MatchSplits(line) ==
    LET I == {i \in 0..Len(line) : AllSpace(SubSeq(line, 1, i))}
        J == {j \in 0..Len(line) : MatchesTail(SubSeq(line, j + 1, Len(line)))}
    IN  {p \in I \X J : p[1] <= p[2]}

\* the split the backtracking matcher finds first: group 1 is greedy (the
\* longest indent that still lets the rest match), group 2 is lazy (then the
\* shortest title)
FirstSplit(splits) ==
    CHOOSE p \in splits :
        \A q \in splits :
            \/ q[1] < p[1]
            \/ q[1] = p[1] /\ q[2] >= p[2]

\* group 4: the digits of the tail that starts after position j
PageStr(line, j) ==
    LET s == SubSeq(line, j + 1, Len(line))
        a == CHOOSE a \in 1..Len(s) :
                /\ AllSpace(SubSeq(s, 1, a))
                /\ (a = Len(s) \/ ~IsSpace(s[a + 1]))
        b == CHOOSE b \in (a + 1)..Len(s) :
                /\ AllDigits(SubSeq(s, a + 1, b))
                /\ (b = Len(s) \/ ~IsDigit(s[b + 1]))
    IN  SubSeq(s, a + 1, b)

SpacesPerLevel == 4

\* a variant that counts the tabs only
LevelOf_TabsOnly(indent_str) == Count(indent_str, TAB)

\* level = tab_count + (space_count // 4)
LevelOf(indent_str) ==
    Count(indent_str, TAB) + (Count(indent_str, SP) \div SpacesPerLevel)

\* a variant that clamps below 0, to 0
PageOf_ClampAtZero(page_str, off) ==
    LET page == ToInt(page_str) + off
    IN  IF page < 0 THEN 0 ELSE page

\* page = int(page_str) + offset; if page < 1: page = 1
PageOf(page_str, off) ==
    LET page == ToInt(page_str) + off
    IN  IF page < 1 THEN 1 ELSE page

\* safe_title = title.replace('"', '\"'): in Python source '\"' is the
\* one-character string '"', so the replacement string is a bare quote
SafeTitle(title) == Replace(title, QUOTE, <<QUOTE>>)

\* f'{level} "{safe_title}" {page}'
Record(level, safe_title, page) ==
    ToStr(level) \o <<SP, QUOTE>> \o safe_title \o <<QUOTE, SP>> \o ToStr(page)

\* not line_raw.strip()
IsBlank(line_raw) == AllSpace(line_raw)

\* the match of one line: what the loop body reads from the match object
LineMatch(line_raw) ==
    LET line == NFKC(line_raw)
        splits == MatchSplits(line)
    IN  IF splits = {} THEN [ok |-> FALSE]
        ELSE LET p == FirstSplit(splits)
             IN  [ok |-> TRUE,
                  indent_str |-> SubSeq(line, 1, p[1]),
                  title |-> SubSeq(line, p[1] + 1, p[2]),
                  page_str |-> PageStr(line, p[2])]

\* the (level, title, page) one line yields (none or one): the loop body
\* up to the clamp of the page
ParseLine(line_raw, off) ==
    IF IsBlank(line_raw) THEN <<>>
    ELSE LET m == LineMatch(line_raw)
         IN  IF m.ok
             THEN <<[level |-> LevelOf(m.indent_str),
                     title |-> m.title,
                     page |-> PageOf(m.page_str, off)]>>
             ELSE <<>>

\* the loop over raw_text.splitlines(): the entries in document order
RECURSIVE ParseEntries(_, _)
ParseEntries(lines, off) ==
    IF Len(lines) = 0 THEN <<>>
    ELSE ParseLine(Head(lines), off) \o ParseEntries(Tail(lines), off)

\* cpdf_lines: one record per entry
Records(entries) ==
    [i \in 1..Len(entries) |->
        Record(entries[i].level, SafeTitle(entries[i].title), entries[i].page)]

\* parse_bookmarks: the value returned
parse_bookmarks(lines, off) == Records(ParseEntries(lines, off))

---------------------------------------------------------------------------
(* The outline formatter: BookmarkEditor.load_existing_bookmarks *)

\* the splits <<d, w, q, r, e>> that ^(\d+)\s+"(.*)"\s+(\d+) admits at the
\* start of a line: group 1 is line[1..d], the opening quote is line[w+1],
\* group 2 is line[w+2..q-1], the closing quote is line[q], group 3 is
\* line[r+1..e]
ListingSplits(line) ==
    LET n == Len(line)
    IN  UNION {UNION {UNION {UNION {
            {<<d, w, q, r, e>> :
                e \in {x \in (r + 1)..n : AllDigits(SubSeq(line, r + 1, x))}} :
            r \in {x \in (q + 1)..n : AllSpace(SubSeq(line, q + 1, x))}} :
            q \in {x \in (w + 2)..n : line[x] = QUOTE}} :
            w \in {x \in (d + 1)..(n - 1) :
                      AllSpace(SubSeq(line, d + 1, x)) /\ line[x + 1] = QUOTE}} :
            d \in {x \in 1..n : AllDigits(SubSeq(line, 1, x))}}

\* p comes before q in the matcher's search: every quantifier is greedy
Longer(p, q) ==
    \E k \in 1..5 : p[k] > q[k] /\ \A m \in 1..(k - 1) : p[m] = q[m]

FirstListingSplit(splits) ==
    CHOOSE p \in splits : \A q \in splits : q = p \/ Longer(p, q)

\* "\t" * level
Tabs(level) == [i \in 1..level |-> TAB]

\* the loop body: the editor line of one line of the listing (none or one)
FormatLine(line) ==
    IF ListingSplits(line) = {} THEN <<>>
    ELSE LET p == FirstListingSplit(ListingSplits(line))
             level == ToInt(SubSeq(line, 1, p[1]))
             title == SubSeq(line, p[2] + 2, p[3] - 1)
             page == SubSeq(line, p[4] + 1, p[5])
         IN  <<Tabs(level) \o Unescape(title) \o <<SP>> \o page>>

\* lines: the loop over output.splitlines()
RECURSIVE FormatLines(_)
FormatLines(output) ==
    IF Len(output) = 0 THEN <<>>
    ELSE FormatLine(Head(output)) \o FormatLines(Tail(output))

\* not output.strip()
OutputBlank(output) == \A i \in 1..Len(output) : AllSpace(output[i])

\* what cpdf -list-bookmarks prints for a bookmark table: one line
\* LEVEL "TITLE" PAGE per bookmark, the quotes of the title backslash-escaped
CpdfListing(table) ==
    [i \in 1..Len(table) |->
        ToStr(table[i].level) \o <<SP, QUOTE>>
            \o Replace(table[i].title, QUOTE, <<BSL, QUOTE>>)
            \o <<QUOTE, SP>> \o ToStr(table[i].page)]

\* a variant in which the check of the path is forgotten
NoFile_Never(path) == FALSE

\* not self.editor.current_file_path
NoFile(path) == path = "None"

\* shutil.which("cpdf") is None
CpdfMissing(tool) == tool = "missing"

\* subprocess.run(cmd, check=True): what the call does, given whether the
\* tool, when it runs, exits with status 0
RunCpdf(tool, exit0) ==
    IF CpdfMissing(tool) THEN "FileNotFoundError"
    ELSE IF exit0 THEN "ok" ELSE "CalledProcessError"

\* load_existing_bookmarks: its outcome and the document it leaves
LoadOutcome(path, tool, exit0, output, old_text) ==
    IF NoFile(path) THEN [result |-> "no-file", text |-> old_text]
    ELSE IF CpdfMissing(tool) THEN [result |-> "no-cpdf", text |-> old_text]
    ELSE IF RunCpdf(tool, exit0) = "CalledProcessError"
         THEN [result |-> "list-failed", text |-> old_text]
    ELSE IF OutputBlank(output) THEN [result |-> "blank-output", text |-> old_text]
    ELSE LET lines == FormatLines(output)
         IN  IF lines # <<>> THEN [result |-> "loaded", text |-> lines]
             ELSE [result |-> "no-match", text |-> old_text]

---------------------------------------------------------------------------
(* The editing operations: BookmarkEditor.indent_text, unindent_text *)

\* text.startswith(prefix)
StartsWith(s, prefix) ==
    Len(s) >= Len(prefix) /\ SubSeq(s, 1, Len(prefix)) = prefix

\* cursor.setPosition(block.position()); n times cursor.deleteChar(), in a
\* block of more than n characters or of exactly n
DeleteChars(s, n) == SubSeq(s, n + 1, Len(s))

FourSpaces == <<SP, SP, SP, SP>>

\* a variant that removes up to four leading spaces, however few there are
UnindentLine_UpToFour(s) ==
    IF StartsWith(s, <<TAB>>) THEN DeleteChars(s, 1)
    ELSE LET k == CHOOSE k \in 0..4 :
                      /\ k <= Len(s)
                      /\ \A i \in 1..k : s[i] = SP
                      /\ (k = 4 \/ k = Len(s) \/ s[k + 1] # SP)
         IN  DeleteChars(s, k)

\* the body of unindent_text's loop on one block
UnindentLine(s) ==
    IF StartsWith(s, <<TAB>>) THEN DeleteChars(s, 1)
    ELSE IF StartsWith(s, FourSpaces) THEN DeleteChars(s, Len(FourSpaces))
    ELSE s

\* the body of indent_text's loop on one block: cursor.insertText("\t")
IndentLine(s) == <<TAB>> \o s

\* for i in range(start_block, end_block + 1), unindent_text
RECURSIVE UnindentBlocks(_, _, _)
UnindentBlocks(doc, i, end_block) ==
    IF i > end_block THEN doc
    ELSE UnindentBlocks([doc EXCEPT ![i] = UnindentLine(doc[i])], i + 1, end_block)

\* for i in range(start_block, end_block + 1), indent_text
RECURSIVE IndentBlocks(_, _, _)
IndentBlocks(doc, i, end_block) ==
    IF i > end_block THEN doc
    ELSE IndentBlocks([doc EXCEPT ![i] = IndentLine(doc[i])], i + 1, end_block)

---------------------------------------------------------------------------
(* The session *)

\* bounds: the characters a typed document holds (its line breaks
\* included), the characters of a document under indent_text, and the
\* temporary files left on disk
MaxDocLen == 3
MaxEditLen == 6
MaxTempFiles == 2

\* len(toPlainText()): the characters of the blocks and the breaks between
RECURSIVE DocLen(_)
DocLen(doc) ==
    IF Len(doc) = 0 THEN 0
    ELSE IF Len(doc) = 1 THEN Len(doc[1])
    ELSE Len(Head(doc)) + 1 + DocLen(Tail(doc))

\* the characters the user types
TypedChars == {SP, "a", "3"}

\* the values the user gives the offset spin box, within its range
MinOffset == -1000
MaxOffset == 1000
Offsets == {MinOffset, -10, 0, 7, MaxOffset}
SessionOffsets == {-10, 0}

Files == {"a.pdf", "b.pdf", "c.pdf"}

\* the PDF files on disk: the bookmark table of each and what
\* cpdf -list-bookmarks prints for it
SamplePdfs ==
    LET a == <<[level |-> 0, title |-> <<"a">>, page |-> 3],
               [level |-> 1, title |-> <<QUOTE, "a">>, page |-> 10]>>
    IN  [f \in Files |->
            CASE f = "a.pdf" -> [table |-> a, stdout |-> CpdfListing(a)]
              [] f = "b.pdf" -> [table |-> <<>>, stdout |-> <<>>]
              [] f = "c.pdf" -> [table |-> <<>>, stdout |-> <<<<"a", SP, "3">>>>]]

NoOp ==
    [op |-> "init", result |-> "none", notice |-> "none", raised |-> "none",
     before |-> <<>>, sel |-> <<0, 0>>, entries |-> <<>>, bookmarks |-> <<>>,
     invoked |-> FALSE, created |-> 0, removed |-> 0]

NoTempFiles == [bookmark |-> 0, pdf |-> 0]

\* a variant in which the check of the list is forgotten
NoBookmarks_Never(bookmarks) == FALSE

\* not bookmarks
NoBookmarks(bookmarks) == bookmarks = <<>>

\* the editor's toPlainText().strip() is empty
TextBlank(doc) == \A i \in 1..Len(doc) : AllSpace(doc[i])

\* generate_temp_pdf: what one call does, given whether cpdf, when it runs,
\* exits with status 0.  ret is the path returned ("None" or the temporary
\* PDF), files the temporary files the call leaves on disk.
generate_temp_pdf(path, doc, off, tool, exit0) ==
    LET entries == ParseEntries(doc, off)
        bookmarks == Records(entries)
        run == RunCpdf(tool, exit0)
        r == [NoOp EXCEPT !.op = "preview", !.entries = entries,
                          !.bookmarks = bookmarks]
    IN  IF NoFile(path)
        THEN [out |-> [NoOp EXCEPT !.op = "preview", !.result = "no-file",
                                   !.notice = "select-file"],
              tab |-> 0, files |-> NoTempFiles]
        ELSE IF NoBookmarks(bookmarks)
        THEN [out |-> [r EXCEPT !.result = "empty",
                                !.notice = IF TextBlank(doc) THEN "no-bookmarks"
                                           ELSE "no-bookmarks-format-hint"],
              tab |-> 0, files |-> NoTempFiles]
        ELSE IF run = "FileNotFoundError"
        THEN [out |-> [r EXCEPT !.result = "raised", !.raised = run,
                                !.invoked = TRUE, !.created = 2],
              tab |-> 1, files |-> [bookmark |-> 1, pdf |-> 1]]
        ELSE IF run = "CalledProcessError"
        THEN [out |-> [r EXCEPT !.result = "tool-failed", !.notice = "cpdf-stderr",
                                !.invoked = TRUE, !.created = 2, !.removed = 2],
              tab |-> 1, files |-> NoTempFiles]
        ELSE [out |-> [r EXCEPT !.result = "ok", !.invoked = TRUE,
                                !.created = 2, !.removed = 1],
              tab |-> 1, files |-> [bookmark |-> 0, pdf |-> 1]]

\* update_preview, called by on_tab_changed(1)
update_preview(path, doc, off, tool, exit0) ==
    IF NoFile(path)
    THEN [out |-> [NoOp EXCEPT !.op = "preview", !.result = "no-file"],
          tab |-> 1, files |-> NoTempFiles]
    ELSE generate_temp_pdf(path, doc, off, tool, exit0)

\* save_pdf: what one click does
save_pdf_outcome(path, dest_path, doc, off, tool, exit0) ==
    LET entries == ParseEntries(doc, off)
        bookmarks == Records(entries)
        run == RunCpdf(tool, exit0)
        r == [NoOp EXCEPT !.op = "save", !.entries = entries,
                          !.bookmarks = bookmarks]
    IN  IF NoFile(path)
        THEN [out |-> [NoOp EXCEPT !.op = "save", !.result = "no-file",
                                   !.notice = "no-file-loaded"],
              files |-> NoTempFiles]
        ELSE IF dest_path = ""
        THEN [out |-> [NoOp EXCEPT !.op = "save", !.result = "cancelled"],
              files |-> NoTempFiles]
        ELSE IF NoBookmarks(bookmarks)
        THEN [out |-> [r EXCEPT !.result = "empty", !.notice = "no-bookmarks"],
              files |-> NoTempFiles]
        ELSE IF run = "FileNotFoundError"
        THEN [out |-> [r EXCEPT !.result = "raised", !.raised = run,
                                !.invoked = TRUE, !.created = 1],
              files |-> [bookmark |-> 1, pdf |-> 0]]
        ELSE [out |-> [r EXCEPT !.result = IF run = "ok" THEN "ok" ELSE "tool-failed",
                                !.notice = IF run = "ok" THEN "saved" ELSE "cpdf-stderr",
                                !.invoked = TRUE, !.created = 1, !.removed = 1],
              files |-> NoTempFiles]

---------------------------------------------------------------------------
(* The handlers *)

EmptyDoc == <<<<>>>>

\* a key press in the editor: one character at the end of the document
TypeChar(c) ==
    /\ ~crashed /\ tabIndex = 0
    /\ DocLen(text) < MaxDocLen
    /\ text' = [text EXCEPT ![Len(text)] = Append(@, c)]
    /\ last' = [NoOp EXCEPT !.op = "edit"]
    /\ UNCHANGED <<offset, current_file_path, tabIndex, cpdf, pdfs, tempFiles, crashed>>

\* the return key: a new block at the end of the document
NewLine ==
    /\ ~crashed /\ tabIndex = 0
    /\ DocLen(text) < MaxDocLen
    /\ text' = Append(text, <<>>)
    /\ last' = [NoOp EXCEPT !.op = "edit"]
    /\ UNCHANGED <<offset, current_file_path, tabIndex, cpdf, pdfs, tempFiles, crashed>>

\* the backspace key at the end of the document
Backspace ==
    /\ ~crashed /\ tabIndex = 0
    /\ text # EmptyDoc
    /\ text' = IF text[Len(text)] # <<>>
               THEN [text EXCEPT ![Len(text)] = SubSeq(@, 1, Len(@) - 1)]
               ELSE SubSeq(text, 1, Len(text) - 1)
    /\ last' = [NoOp EXCEPT !.op = "edit"]
    /\ UNCHANGED <<offset, current_file_path, tabIndex, cpdf, pdfs, tempFiles, crashed>>

\* the offset spin box
SetOffset(o) ==
    /\ ~crashed /\ tabIndex = 0
    /\ o # offset
    /\ offset' = o
    /\ last' = [NoOp EXCEPT !.op = "edit"]
    /\ UNCHANGED <<text, current_file_path, tabIndex, cpdf, pdfs, tempFiles, crashed>>

\* BookmarkEditor.indent_text on the blocks start_block..end_block
indent_text(start_block, end_block) ==
    /\ ~crashed /\ tabIndex = 0
    /\ start_block <= end_block
    /\ DocLen(text) + (end_block - start_block + 1) <= MaxEditLen
    /\ text' = IndentBlocks(text, start_block, end_block)
    /\ last' = [NoOp EXCEPT !.op = "indent", !.before = text,
                            !.sel = <<start_block, end_block>>]
    /\ UNCHANGED <<offset, current_file_path, tabIndex, cpdf, pdfs, tempFiles, crashed>>

\* BookmarkEditor.unindent_text on the blocks start_block..end_block
unindent_text(start_block, end_block) ==
    /\ ~crashed /\ tabIndex = 0
    /\ start_block <= end_block
    /\ text' = UnindentBlocks(text, start_block, end_block)
    /\ last' = [NoOp EXCEPT !.op = "unindent", !.before = text,
                            !.sel = <<start_block, end_block>>]
    /\ UNCHANGED <<offset, current_file_path, tabIndex, cpdf, pdfs, tempFiles, crashed>>

\* BookmarkEditor.browse_file: the dialog returns fname ("" when cancelled)
browse_file(fname, exit0) ==
    /\ ~crashed /\ tabIndex = 0
    /\ IF fname = ""
       THEN /\ last' = [NoOp EXCEPT !.op = "browse", !.result = "cancelled"]
            /\ UNCHANGED <<text, current_file_path>>
       ELSE \E load \in {LoadOutcome(fname, cpdf, exit0, pdfs[fname].stdout, text)} :
                /\ current_file_path' = fname
                /\ text' = load.text
                /\ last' = [NoOp EXCEPT !.op = "browse", !.result = load.result]
    /\ UNCHANGED <<offset, tabIndex, cpdf, pdfs, tempFiles, crashed>>

\* MainWindow.on_tab_changed: the user shows the other tab
on_tab_changed(index, exit0) ==
    /\ ~crashed /\ index # tabIndex
    /\ IF index = 1
       THEN \E g \in {update_preview(current_file_path, text, offset, cpdf, exit0)} :
                /\ tempFiles.pdf + g.files.pdf <= MaxTempFiles
                /\ tabIndex' = g.tab
                /\ tempFiles' = [bookmark |-> tempFiles.bookmark + g.files.bookmark,
                                 pdf |-> tempFiles.pdf + g.files.pdf]
                /\ crashed' = (g.out.raised # "none")
                /\ last' = g.out
       ELSE /\ tabIndex' = index
            /\ last' = [NoOp EXCEPT !.op = "edit"]
            /\ UNCHANGED <<tempFiles, crashed>>
    /\ UNCHANGED <<text, offset, current_file_path, cpdf, pdfs>>

\* MainWindow.save_pdf: the button of the preview tab; the dialog returns
\* dest_path ("" when cancelled)
save_pdf(dest_path, exit0) ==
    /\ ~crashed /\ tabIndex = 1
    /\ \E g \in {save_pdf_outcome(current_file_path, dest_path, text, offset, cpdf, exit0)} :
           /\ tempFiles' = [bookmark |-> tempFiles.bookmark + g.files.bookmark,
                            pdf |-> tempFiles.pdf + g.files.pdf]
           /\ crashed' = (g.out.raised # "none")
           /\ last' = g.out
    /\ UNCHANGED <<text, offset, current_file_path, tabIndex, cpdf, pdfs>>

---------------------------------------------------------------------------
(* The session of the application *)

Init ==
    /\ text = EmptyDoc
    /\ offset = 0
    /\ current_file_path = "None"
    /\ tabIndex = 0
    /\ cpdf \in {"missing", "installed"}
    /\ pdfs = SamplePdfs
    /\ tempFiles = NoTempFiles
    /\ crashed = FALSE
    /\ last = NoOp

Next ==
    \/ \E c \in TypedChars : TypeChar(c)
    \/ NewLine
    \/ Backspace
    \/ \E o \in SessionOffsets : SetOffset(o)
    \/ \E fname \in Files \cup {""} : \E exit0 \in BOOLEAN : browse_file(fname, exit0)
    \/ \E index \in {0, 1} : \E exit0 \in BOOLEAN : on_tab_changed(index, exit0)
    \/ \E dest_path \in {"", "out.pdf"} : \E exit0 \in BOOLEAN : save_pdf(dest_path, exit0)

Spec == Init /\ [][Next]_vars

---------------------------------------------------------------------------
(* The inputs of the operations taken alone *)

NL == "\n"

\* the strings of at most n characters of S
Strings(S, n) == UNION {[1..k -> S] : k \in 0..n}

\* QTextEdit.setPlainText(s): the blocks of the document that holds s
RECURSIVE Blocks(_)
Blocks(s) ==
    IF \A i \in 1..Len(s) : s[i] # NL THEN <<s>>
    ELSE LET k == CHOOSE i \in 1..Len(s) :
                      s[i] = NL /\ \A j \in 1..(i - 1) : s[j] # NL
         IN  <<SubSeq(s, 1, k - 1)>> \o Blocks(SubSeq(s, k + 1, Len(s)))

\* One outline line, an indentation and a body, under every offset: the
\* preview of a selected file parses it.
MaxIndent == 4
MaxBody == 3
IndentChars == {TAB, SP}
BodyChars == {SP, "a", "3", QUOTE, FW3}

InitLine ==
    /\ \E ind \in Strings(IndentChars, MaxIndent) :
       \E body \in Strings(BodyChars, MaxBody) : text = <<ind \o body>>
    /\ offset \in Offsets
    /\ current_file_path = "a.pdf"
    /\ tabIndex = 0
    /\ cpdf = "installed"
    /\ pdfs = SamplePdfs
    /\ tempFiles = NoTempFiles
    /\ crashed = FALSE
    /\ last = NoOp

NextLine == \E exit0 \in BOOLEAN : on_tab_changed(1, exit0)

SpecLine == InitLine /\ [][NextLine]_vars

\* A document of several short lines: preview and save parse it.
MaxTextLen == 6
TextChars == {SP, "a", "3", NL}

InitText ==
    /\ \E s \in Strings(TextChars, MaxTextLen) : text = Blocks(s)
    /\ offset \in SessionOffsets
    /\ current_file_path = "a.pdf"
    /\ tabIndex = 0
    /\ cpdf \in {"missing", "installed"}
    /\ pdfs = SamplePdfs
    /\ tempFiles = NoTempFiles
    /\ crashed = FALSE
    /\ last = NoOp

NextText ==
    \/ \E exit0 \in BOOLEAN : on_tab_changed(1, exit0)
    \/ \E dest_path \in {"", "out.pdf"} : \E exit0 \in BOOLEAN : save_pdf(dest_path, exit0)

SpecText == InitText /\ [][NextText]_vars

\* A document under the editing operations.
EditChars == {TAB, SP, "a", NL}

InitEdit ==
    /\ \E s \in Strings(EditChars, MaxEditLen) : text = Blocks(s)
    /\ offset = 0
    /\ current_file_path = "None"
    /\ tabIndex = 0
    /\ cpdf = "installed"
    /\ pdfs = SamplePdfs
    /\ tempFiles = NoTempFiles
    /\ crashed = FALSE
    /\ last = NoOp

NextEdit ==
    \/ \E sb \in 1..Len(text) : \E eb \in 1..Len(text) : indent_text(sb, eb)
    \/ \E sb \in 1..Len(text) : \E eb \in 1..Len(text) : unindent_text(sb, eb)

SpecEdit == InitEdit /\ [][NextEdit]_vars

\* A PDF with a bookmark table: the file is selected, then previewed.
MaxTitleLen == 2
MaxLevel == 1
TitleChars == {SP, "a", "3", QUOTE, FW3}
Pages == {1, 12}

Triples ==
    [level : 0..MaxLevel, title : Strings(TitleChars, MaxTitleLen), page : Pages]

\* the entries that stand before or after the entry under test
Neighbours ==
    {[level |-> 0, title |-> <<"a">>, page |-> 1],
     [level |-> 1, title |-> <<"a", SP, "a">>, page |-> 12]}

Tables ==
    {<<e>> : e \in Triples}
        \cup {<<e, f>> : e \in Triples, f \in Neighbours}
        \cup {<<f, e>> : e \in Triples, f \in Neighbours}

InitRound ==
    /\ text = EmptyDoc
    /\ offset = 0
    /\ current_file_path = "None"
    /\ tabIndex = 0
    /\ cpdf = "installed"
    /\ \E t \in Tables :
          pdfs = [SamplePdfs EXCEPT !["a.pdf"] = [table |-> t, stdout |-> CpdfListing(t)]]
    /\ tempFiles = NoTempFiles
    /\ crashed = FALSE
    /\ last = NoOp

NextRound ==
    \/ \E exit0 \in BOOLEAN : browse_file("a.pdf", exit0)
    \/ \E exit0 \in BOOLEAN : on_tab_changed(1, exit0)

SpecRound == InitRound /\ [][NextRound]_vars

---------------------------------------------------------------------------
(* The properties *)

Max(a, b) == IF a >= b THEN a ELSE b

\* the length of the longest prefix of s that is whitespace
LeadLen(s) ==
    CHOOSE k \in 0..Len(s) :
        AllSpace(SubSeq(s, 1, k)) /\ (k = Len(s) \/ ~IsSpace(s[k + 1]))

\* s without its trailing whitespace
RStrip(s) ==
    LET k == CHOOSE k \in 0..Len(s) :
                 AllSpace(SubSeq(s, k + 1, Len(s))) /\ (k = 0 \/ ~IsSpace(s[k]))
    IN  SubSeq(s, 1, k)

\* the longest suffix of s that is digits
TrailingDigits(s) ==
    LET k == CHOOSE k \in 0..Len(s) :
                 AllDigits(SubSeq(s, k + 1, Len(s))) /\ (k = 0 \/ ~IsDigit(s[k]))
    IN  SubSeq(s, k + 1, Len(s))

\* a line <indent><title><ws><digits>: it ends in digits that follow whitespace
IsOutlineForm(line) ==
    LET d == TrailingDigits(line)
    IN  /\ Len(d) >= 1
        /\ Len(line) > Len(d)
        /\ IsSpace(line[Len(line) - Len(d)])

\* a line with no trailing numeric token: nothing, or its last word does not
\* end in a digit
NoTrailingNumber(line) == TrailingDigits(RStrip(line)) = <<>>

\* the last operation parsed the document
Parsed ==
    /\ last.op \in {"preview", "save"}
    /\ last.result \notin {"no-file", "cancelled"}

(* C1: for every line the parser accepts, every double quote of the parsed
   title is emitted backslash-escaped in the record level "escaped-title"
   page, and the formatter, which turns backslash-quote back into a quote,
   restores the title from that record. *)
C1_QuotesEscaped ==
    (last.op = "preview" /\ last.entries # <<>>) =>
        LET e == last.entries[1]
            escaped == Replace(e.title, QUOTE, <<BSL, QUOTE>>)
        IN  /\ last.bookmarks[1] = Record(e.level, escaped, e.page)
            /\ FormatLine(last.bookmarks[1])
                   = <<Tabs(e.level) \o e.title \o <<SP>> \o ToStr(e.page)>>

(* C4: a line of the form <indent><title><ws><digits> yields, under every
   offset, exactly one entry, whose page is max(1, page number + offset); the
   entry has page >= 1 and level >= 0. *)
C4_OneEntryClampedPage ==
    (last.op = "preview" /\ IsOutlineForm(text[1])) =>
        /\ Len(last.entries) = 1
        /\ Len(last.bookmarks) = 1
        /\ last.entries[1].page = Max(1, ToInt(TrailingDigits(text[1])) + offset)
        /\ last.entries[1].page >= 1
        /\ last.entries[1].level >= 0

\* the example of the specification: page 3 under offset -10 is page 1
C4_Witness ==
    /\ last.op = "preview"
    /\ IsOutlineForm(text[1])
    /\ ToInt(TrailingDigits(text[1])) = 3
    /\ offset = -10
    /\ Len(last.entries) = 1
    /\ last.entries[1].page = 1

\* t + s // 4 of an indentation of t tabs and s spaces
TabsAndSpacesLevel(ind) == Count(ind, TAB) + (Count(ind, SP) \div 4)

\* the leading whitespace of a line, which is tabs and spaces only
LeadingIndent(line) == SubSeq(line, 1, LeadLen(line))

TabsAndSpacesOnly(ind) == \A i \in 1..Len(ind) : ind[i] \in {TAB, SP}

(* C5 as stated: for every accepted line whose leading indentation is t tabs
   and s spaces in any order, the emitted level is t + s // 4. *)
C5_LevelOfLeadingIndent ==
    (last.op = "preview" /\ last.entries # <<>>
        /\ TabsAndSpacesOnly(LeadingIndent(text[1]))) =>
        last.entries[1].level = TabsAndSpacesLevel(LeadingIndent(text[1]))

\* a line that is nothing but whitespace, a page number and whitespace
OnlyPageNumber(line) ==
    LET rest == SubSeq(line, LeadLen(line) + 1, Len(line))
    IN  AllDigits(RStrip(rest))

\* the indentation the pattern captures: the leading whitespace, less its last
\* character, the separator, when no title stands before the page number
CapturedIndent(line) ==
    IF OnlyPageNumber(line)
    THEN SubSeq(line, 1, LeadLen(line) - 1)
    ELSE LeadingIndent(line)

(* C5 as amended: for every accepted line whose leading indentation, after
   normalisation, is tabs and spaces, the emitted level is t + s // 4 where t
   and s count the tabs and spaces of that indentation when the line has a
   title, and of that indentation less its last character, which is then the
   separator, when the line holds a page number only. *)
C5_LevelOfCapturedIndent ==
    (last.op = "preview" /\ last.entries # <<>>
        /\ TabsAndSpacesOnly(LeadingIndent(NFKC(text[1])))) =>
        last.entries[1].level = TabsAndSpacesLevel(CapturedIndent(NFKC(text[1])))

\* four spaces before a title are one level
C5_Witness ==
    /\ last.op = "preview"
    /\ last.entries # <<>>
    /\ LeadingIndent(text[1]) = <<SP, SP, SP, SP>>
    /\ last.entries[1].title # <<>>
    /\ last.entries[1].level = 1

(* Round trip *)

\* the table of the selected file, and its text as the claim formats it:
\* level tabs, the title, one space, the page, one entry per line
SelectedTable == pdfs["a.pdf"].table

TableText(table) ==
    [i \in 1..Len(table) |->
        Tabs(table[i].level) \o table[i].title \o <<SP>> \o ToStr(table[i].page)]

\* the document was loaded from the selected file and then previewed
LoadedAndPreviewed ==
    /\ last.op = "preview"
    /\ current_file_path = "a.pdf"
    /\ text # EmptyDoc

EndsInSpaceDigits(title) ==
    LET d == TrailingDigits(title)
    IN  Len(d) >= 1 /\ Len(title) > Len(d) /\ IsSpace(title[Len(title) - Len(d)])

Trimmed(title) ==
    title = <<>> \/ (~IsSpace(title[1]) /\ ~IsSpace(title[Len(title)]))

(* C6 as stated: every sequence of (level, title, page) with level >= 0 and
   page >= 1 whose titles do not end in whitespace followed by digits,
   formatted to indented text and parsed again under offset 0, comes back as
   the same sequence in the same order. *)
C6_RoundTrip ==
    (LoadedAndPreviewed
        /\ \A i \in 1..Len(SelectedTable) : ~EndsInSpaceDigits(SelectedTable[i].title)) =>
        /\ text = TableText(SelectedTable)
        /\ last.entries = SelectedTable

(* C6 as amended: the round trip holds for the sequences whose titles, besides
   not ending in whitespace followed by digits, neither begin nor end with
   whitespace and are unchanged by NFKC normalisation. *)
C6_RoundTripOfPlainTitles ==
    (LoadedAndPreviewed
        /\ \A i \in 1..Len(SelectedTable) :
              /\ ~EndsInSpaceDigits(SelectedTable[i].title)
              /\ Trimmed(SelectedTable[i].title)
              /\ NFKC(SelectedTable[i].title) = SelectedTable[i].title) =>
        /\ text = TableText(SelectedTable)
        /\ last.entries = SelectedTable

\* two entries, the first with a quote in its title, come back in order
C6_Witness ==
    /\ LoadedAndPreviewed
    /\ Len(SelectedTable) = 2
    /\ SelectedTable[1].title = <<QUOTE, "a">>
    /\ SelectedTable[1].level = 1
    /\ last.entries = SelectedTable

(* Dropped lines and the empty result *)

\* a line the parser takes: once normalised it is, up to trailing whitespace,
\* of the form <indent><title><ws><digits>
IsValidLine(line) == IsOutlineForm(RStrip(NFKC(line)))

\* the lines of a document that are valid, in document order
RECURSIVE ValidLines(_)
ValidLines(doc) ==
    IF Len(doc) = 0 THEN <<>>
    ELSE (IF IsValidLine(Head(doc)) THEN <<Head(doc)>> ELSE <<>>)
             \o ValidLines(Tail(doc))

(* C7: no line aborts the parse: a line with no trailing numeric token gives
   no entry and every valid line gives its entry, in document order; a
   non-empty text of lines with no trailing numeric token gives no entry, and
   preview and save then show a notice and return without calling the
   external tool and without an unhandled error. *)
C7_BadLinesDropped ==
    Parsed =>
        /\ \A i \in 1..Len(text) : NoTrailingNumber(NFKC(text[i])) => ~IsValidLine(text[i])
        /\ Len(last.entries) = Len(ValidLines(text))
        /\ \A i \in 1..Len(last.entries) :
              last.entries[i].page
                  = Max(1, ToInt(TrailingDigits(RStrip(NFKC(ValidLines(text)[i])))) + offset)
        /\ (\A i \in 1..Len(text) : NoTrailingNumber(NFKC(text[i]))) =>
              /\ last.entries = <<>>
              /\ last.result = "empty"
              /\ last.notice \in {"no-bookmarks", "no-bookmarks-format-hint"}
              /\ ~last.invoked
              /\ last.created = 0
              /\ last.raised = "none"
              /\ ~crashed

\* a text of two lines, neither with a page number, is previewed with the
\* tool missing: the notice with the format hint, no call, no error
C7_Witness ==
    /\ last.op = "preview"
    /\ Len(text) = 2
    /\ \A i \in 1..Len(text) : ~AllSpace(text[i]) /\ NoTrailingNumber(NFKC(text[i]))
    /\ cpdf = "missing"
    /\ last.notice = "no-bookmarks-format-hint"
    /\ ~last.invoked
    /\ ~crashed

(* The session *)

(* C2: every temporary file an operation creates (the bookmark list, the
   generated PDF) is removed by the time the operation returns, on every
   exit path. *)
C2_TempFilesRemoved ==
    /\ last.op \in {"preview", "save"} => last.removed = last.created
    /\ tempFiles = NoTempFiles

(* C3: with cpdf not on the path, no operation that depends on it raises an
   unhandled error or ends the process. *)
C3_MissingToolIsGraceful ==
    cpdf = "missing" => (last.raised = "none" /\ ~crashed)

(* C8: after load_existing_bookmarks on a selected PDF whose listing has no
   line of the shape LEVEL "TITLE" PAGE, the editor's text is empty, whatever
   it held before. *)
C8_NoBookmarksGivesEmptyText ==
    (last.op = "browse" /\ last.result \in {"blank-output", "no-match"}) =>
        TextBlank(text)

(* C10: the add-bookmarks command is invoked only with a source PDF selected
   and a non-empty parsed bookmark list; when either fails, preview and save
   return without creating a temporary file and without invoking the tool. *)
C10_InvokedOnlyWithFileAndBookmarks ==
    /\ last.invoked =>
          /\ last.op \in {"preview", "save"}
          /\ current_file_path # "None"
          /\ last.bookmarks # <<>>
          /\ last.bookmarks = parse_bookmarks(text, offset)
    /\ (last.op \in {"preview", "save"}
            /\ (current_file_path = "None" \/ parse_bookmarks(text, offset) = <<>>)) =>
          /\ ~last.invoked
          /\ last.created = 0
    /\ last.created = 0 => last.removed = 0

\* a save that invokes the tool: a file is selected and the list is not empty
C10_Witness ==
    /\ last.op = "save"
    /\ last.invoked
    /\ current_file_path = "b.pdf"
    /\ Len(last.bookmarks) = 1

(* Unindent *)

\* what unindent does to one line: a leading tab goes; else four leading
\* spaces go; else nothing
Unindented(line) ==
    IF Len(line) >= 1 /\ line[1] = TAB THEN Tail(line)
    ELSE IF Len(line) >= 4 /\ \A k \in 1..4 : line[k] = SP
         THEN SubSeq(line, 5, Len(line))
    ELSE line

(* C9: unindent changes each line of the run on its own (a leading tab is
   removed; otherwise four leading spaces are; otherwise the line stays) and
   no line outside the run. *)
C9_UnindentEachLineOfRun ==
    last.op = "unindent" =>
        /\ Len(text) = Len(last.before)
        /\ \A i \in 1..Len(text) :
              IF last.sel[1] <= i /\ i <= last.sel[2]
              THEN text[i] = Unindented(last.before[i])
              ELSE text[i] = last.before[i]

\* a run of one line with two leading spaces stays as it was, beside a line
\* outside the run that starts with a tab
C9_Witness ==
    /\ last.op = "unindent"
    /\ last.sel = <<1, 1>>
    /\ last.before = <<<<SP, SP, "a">>, <<TAB>>>>
    /\ text = last.before

===========================================================================
